---- MODULE Spec2Model ----
(***************************************************************************)
(* Model of sapio-psbt (src/sapio-psbt/src/lib.rs): SigningKey and its     *)
(* taproot PSBT signing operations.                                        *)
(*                                                                         *)
(* Cryptography is modelled symbolically and collision-free: a key, a      *)
(* tweak, a digest and a signature are the terms built from their inputs,  *)
(* so two of them are equal exactly when they were built from equal        *)
(* inputs.  Option<T> is a sequence: <<>> is None and <<v>> is Some(v).    *)
(***************************************************************************)
EXTENDS Integers, Sequences, FiniteSets, TLC

VARIABLES psbt, ret, last, procs

vars == <<psbt, ret, last, procs>>

(* ------------------------------ bounds -------------------------------- *)
MaxInputs == 2
MaxOutputs == 1
MaxLeaves == 2

(* ------------------------------ options ------------------------------- *)
None == <<>>
Some(v) == <<v>>
IsSome(o) == Len(o) = 1
Unwrap(o) == o[1]

(* ------------------------ keys (bip32, secp256k1) ---------------------- *)
\* The signer's master key self.0 and the master key of some other signer.
SelfMaster == "M"
OtherMaster == "O"
Masters == {SelfMaster, OtherMaster}

\* Derivation paths.  BadPath stands for a path on which bip32 derivation
\* hits an invalid intermediate value, so that derive_priv returns Err.
RootPath == <<>>
BadPath == <<9>>
Paths == {RootPath, <<1>>, <<2>>, BadPath}

\* ExtendedPrivKey::fingerprint
Fingerprint(m) == <<"fp", m>>

\* ExtendedPrivKey::derive_priv: Option of the child extended key
DerivePriv(m, path) ==
    IF path = BadPath THEN None ELSE Some([m |-> m, path |-> path])

\* to_keypair: the key pair of an extended private key, untweaked
ToKeypair(xpriv) == [sk |-> xpriv, tweak |-> None]

\* TapTweak::tap_tweak(secp, merkle_root).into_inner(): the key pair tweaked
\* by the (optional) merkle root; a tweak by None is still a tweak.
TapTweak(kp, merkle_root) == [sk |-> kp.sk, tweak |-> Some(merkle_root)]

\* x-only public key of a key pair
XOnly(kp) == [xonly |-> kp.sk, tweak |-> kp.tweak]

(* ------------------------------ sighash ------------------------------- *)
\* The sighash types the calls are tried with (of the seven of
\* SchnorrSighashType).
HashTypes == {"All", "Single"}

\* SchnorrSighashType::split_anyonecanpay_flag
SplitAnyoneCanPay(hash_ty) ==
    CASE hash_ty = "AllPlusAnyoneCanPay" -> <<"All", TRUE>>
      [] hash_ty = "NonePlusAnyoneCanPay" -> <<"None", TRUE>>
      [] hash_ty = "SinglePlusAnyoneCanPay" -> <<"Single", TRUE>>
      [] OTHER -> <<hash_ty, FALSE>>

\* DEFAULT_CODESEP = 0xffff_ffff, as the four bytes of the u32
DEFAULT_CODESEP == <<255, 255, 255, 255>>

\* SighashCache::taproot_signature_hash as called in get_sig: Err (None) when
\* the prevouts do not cover the transaction's inputs, when ANYONECANPAY names
\* an input the transaction lacks, or when SINGLE has no output at the input's
\* position; otherwise the digest of everything it commits to.
TaprootSignatureHash(tx, input_index, prevouts, path, hash_ty) ==
    LET sp == SplitAnyoneCanPay(hash_ty) IN
    IF Len(prevouts) # tx.n_in THEN None
    ELSE IF sp[2] /\ input_index >= tx.n_in THEN None
    ELSE IF sp[1] = "Single" /\ input_index >= tx.n_out THEN None
    ELSE Some([tx |-> tx, prevouts |-> prevouts, input_index |-> input_index,
               path |-> path, hash_ty |-> hash_ty])

\* The input position get_sig passes to taproot_signature_hash.
SighashInputIndex == 0

\* get_sig: the SchnorrSig, or None where the expect() on the digest panics.
\* sign_schnorr_no_aux_rand is deterministic in (msg, kp).
GetSig(tx, prevouts, hash_ty, kp, path) ==
    LET sighash == TaprootSignatureHash(tx, SighashInputIndex, prevouts, path, hash_ty) IN
    IF ~IsSome(sighash) THEN None
    ELSE Some([sig |-> [msg |-> Unwrap(sighash), kp |-> kp], hash_ty |-> hash_ty])

(* ------------------------- signing one input -------------------------- *)
\* Mutant of ComputeMatchingKeys: the derived public key is not compared with
\* the recorded key.
RECURSIVE ComputeMatchingKeysNoCompare(_, _)
ComputeMatchingKeysNoCompare(m, table) ==
    IF table = <<>> THEN <<>>
    ELSE LET e == Head(table)
             rest == ComputeMatchingKeysNoCompare(m, Tail(table))
             d == DerivePriv(m, e.path)
         IN IF e.fp # Fingerprint(m) THEN rest
            ELSE IF ~IsSome(d) THEN rest
            ELSE <<[kp |-> ToKeypair(Unwrap(d)), vtlh |-> e.leaves]>> \o rest

\* compute_matching_keys: the table entries (in BTreeMap order) whose origin
\* fingerprint is the signer's, whose path derives, and whose derived x-only
\* public key is the recorded key; each as (key pair, leaf vector).
RECURSIVE ComputeMatchingKeys(_, _)
ComputeMatchingKeys(m, table) ==
    IF table = <<>> THEN <<>>
    ELSE LET e == Head(table)
             rest == ComputeMatchingKeys(m, Tail(table))
             d == DerivePriv(m, e.path)
         IN IF e.fp # Fingerprint(m) THEN rest
            ELSE IF ~IsSome(d) THEN rest
            ELSE IF XOnly(ToKeypair(Unwrap(d))) = e.key
                 THEN <<[kp |-> ToKeypair(Unwrap(d)), vtlh |-> e.leaves]>> \o rest
                 ELSE rest

\* Mutant of MapInsert: the map is replaced by the one entry.
MapInsertReplacing(map, k, v) == [x \in {k} |-> v]

\* BTreeMap::insert on tap_script_sigs
MapInsert(map, k, v) ==
    [x \in (DOMAIN map) \cup {k} |-> IF x = k THEN v ELSE map[x]]

\* Mutant of SignLeaves: only the first leaf of the vector is signed.
SignLeavesFirstOnly(input, kp, vtlh, tx, prevouts, hash_ty) ==
    IF vtlh = <<>> THEN [input |-> input, panic |-> FALSE]
    ELSE LET tlh == Head(vtlh)
             sig == GetSig(tx, prevouts, hash_ty, kp, Some(<<tlh, DEFAULT_CODESEP>>))
         IN IF ~IsSome(sig) THEN [input |-> input, panic |-> TRUE]
            ELSE [input |-> [input EXCEPT !.tap_script_sigs =
                               MapInsert(@, <<XOnly(kp), tlh>>, Unwrap(sig))],
                  panic |-> FALSE]

\* The inner loop of sign_all_tapleaf_branches, for one key pair: sign each
\* leaf of vtlh in order; a panic in get_sig stops with what was written.
RECURSIVE SignLeaves(_, _, _, _, _, _)
SignLeaves(input, kp, vtlh, tx, prevouts, hash_ty) ==
    IF vtlh = <<>> THEN [input |-> input, panic |-> FALSE]
    ELSE LET tlh == Head(vtlh)
             sig == GetSig(tx, prevouts, hash_ty, kp, Some(<<tlh, DEFAULT_CODESEP>>))
         IN IF ~IsSome(sig) THEN [input |-> input, panic |-> TRUE]
            ELSE SignLeaves(
                   [input EXCEPT !.tap_script_sigs =
                       MapInsert(@, <<XOnly(kp), tlh>>, Unwrap(sig))],
                   kp, Tail(vtlh), tx, prevouts, hash_ty)

\* The outer loop of sign_all_tapleaf_branches over the matching signers.
RECURSIVE SignSigners(_, _, _, _, _)
SignSigners(input, signers, tx, prevouts, hash_ty) ==
    IF signers = <<>> THEN [input |-> input, panic |-> FALSE]
    ELSE LET r == SignLeaves(input, Head(signers).kp, Head(signers).vtlh,
                             tx, prevouts, hash_ty)
         IN IF r.panic THEN r
            ELSE SignSigners(r.input, Tail(signers), tx, prevouts, hash_ty)

\* sign_all_tapleaf_branches
SignAllTapleafBranches(m, input, tx, prevouts, hash_ty) ==
    SignSigners(input, ComputeMatchingKeys(m, input.tap_key_origins),
                tx, prevouts, hash_ty)

\* Mutant of SignTaprootTopKey: the tweaked public key is the one compared
\* with the recorded internal key.
SignTaprootTopKeyTweakedCompare(m, input, tx, prevouts, hash_ty) ==
    LET untweaked == ToKeypair(Unwrap(DerivePriv(m, RootPath)))
        tweaked == TapTweak(untweaked, input.tap_merkle_root)
    IN IF input.tap_internal_key = Some(XOnly(tweaked))
       THEN LET sig == GetSig(tx, prevouts, hash_ty, tweaked, None)
            IN IF ~IsSome(sig) THEN [input |-> input, panic |-> TRUE]
               ELSE [input |-> [input EXCEPT !.tap_key_sig = sig], panic |-> FALSE]
       ELSE [input |-> input, panic |-> FALSE]

\* Mutant of SignTaprootTopKey: the key-path signature is made with the
\* untweaked key pair.
SignTaprootTopKeyUntweakedSigner(m, input, tx, prevouts, hash_ty) ==
    LET untweaked == ToKeypair(Unwrap(DerivePriv(m, RootPath)))
        pk == XOnly(untweaked)
    IN IF input.tap_internal_key = Some(pk)
       THEN LET sig == GetSig(tx, prevouts, hash_ty, untweaked, None)
            IN IF ~IsSome(sig) THEN [input |-> input, panic |-> TRUE]
               ELSE [input |-> [input EXCEPT !.tap_key_sig = sig], panic |-> FALSE]
       ELSE [input |-> input, panic |-> FALSE]

\* sign_taproot_top_key
SignTaprootTopKey(m, input, tx, prevouts, hash_ty) ==
    LET untweaked == ToKeypair(Unwrap(DerivePriv(m, RootPath)))
        pk == XOnly(untweaked)
        tweaked == TapTweak(untweaked, input.tap_merkle_root)
    IN IF input.tap_internal_key = Some(pk)
       THEN LET sig == GetSig(tx, prevouts, hash_ty, tweaked, None)
            IN IF ~IsSome(sig) THEN [input |-> input, panic |-> TRUE]
               ELSE [input |-> [input EXCEPT !.tap_key_sig = sig], panic |-> FALSE]
       ELSE [input |-> input, panic |-> FALSE]

\* psbt.clone().extract_tx(): the unsigned transaction (the final script
\* fields it copies in are not part of the taproot digest)
ExtractTx(p) == p.unsigned_tx

\* Mutant of CollectUtxos: an input without previous output is skipped.
RECURSIVE CollectUtxosSkipMissing(_, _)
CollectUtxosSkipMissing(inputs, i) ==
    IF i >= Len(inputs) THEN [ok |-> TRUE, utxos |-> <<>>, err |-> 0]
    ELSE LET r == CollectUtxosSkipMissing(inputs, i + 1)
         IN IF IsSome(inputs[i + 1].witness_utxo)
            THEN [ok |-> TRUE, utxos |-> <<Unwrap(inputs[i + 1].witness_utxo)>> \o r.utxos,
                  err |-> 0]
            ELSE r

\* Mutant of CollectUtxos: the last position without previous output is the
\* one reported.
RECURSIVE CollectUtxosLastMissing(_, _)
CollectUtxosLastMissing(inputs, i) ==
    IF i >= Len(inputs) THEN [ok |-> TRUE, utxos |-> <<>>, err |-> 0]
    ELSE LET r == CollectUtxosLastMissing(inputs, i + 1)
         IN IF ~r.ok THEN r
            ELSE IF IsSome(inputs[i + 1].witness_utxo)
            THEN [ok |-> TRUE, utxos |-> <<Unwrap(inputs[i + 1].witness_utxo)>> \o r.utxos,
                  err |-> 0]
            ELSE [ok |-> FALSE, utxos |-> <<>>, err |-> i]

\* The collect::<Result<Vec<TxOut>, usize>>() over the inputs, from the
\* 0-based position i on: the previous outputs, or the first position
\* without one.
RECURSIVE CollectUtxos(_, _)
CollectUtxos(inputs, i) ==
    IF i >= Len(inputs) THEN [ok |-> TRUE, utxos |-> <<>>, err |-> 0]
    ELSE IF IsSome(inputs[i + 1].witness_utxo)
         THEN LET r == CollectUtxos(inputs, i + 1)
              IN IF r.ok
                 THEN [ok |-> TRUE, utxos |-> <<Unwrap(inputs[i + 1].witness_utxo)>> \o r.utxos,
                       err |-> 0]
                 ELSE r
         ELSE [ok |-> FALSE, utxos |-> <<>>, err |-> i]

\* Mutant of GetMut: the first record is taken whatever the index.
GetMutFirst(inputs, idx) == IF idx < Len(inputs) THEN 1 ELSE 0

\* psbt.inputs.get_mut(idx): the 1-based position of the record, 0 if none
GetMut(inputs, idx) == IF idx < Len(inputs) THEN idx + 1 ELSE 0

\* Results of a call
ResOk == [kind |-> "Ok", index |-> 0]
ResPanic == [kind |-> "Panic", index |-> 0]
NoUTXOAtIndex(i) == [kind |-> "NoUTXOAtIndex", index |-> i]
NoInputAtIndex(i) == [kind |-> "NoInputAtIndex", index |-> i]

\* sign_psbt_input_mut: the bundle after the call and the call's result
SignPsbtInputMut(m, p, idx, hash_ty) ==
    LET tx == ExtractTx(p)
        c == CollectUtxos(p.inputs, 0)
        pos == GetMut(p.inputs, idx)
    IN IF ~c.ok THEN [psbt |-> p, res |-> NoUTXOAtIndex(c.err)]
       ELSE IF pos = 0 THEN [psbt |-> p, res |-> NoInputAtIndex(idx)]
       ELSE LET k == SignTaprootTopKey(m, p.inputs[pos], tx, c.utxos, hash_ty)
            IN IF k.panic
               THEN [psbt |-> [p EXCEPT !.inputs[pos] = k.input], res |-> ResPanic]
               ELSE LET t == SignAllTapleafBranches(m, k.input, tx, c.utxos, hash_ty)
                    IN [psbt |-> [p EXCEPT !.inputs[pos] = t.input],
                        res |-> IF t.panic THEN ResPanic ELSE ResOk]

\* sign_psbt_input: Ok(psbt) or Err((psbt, e)), the bundle handed back
SignPsbtInput(m, p, idx, hash_ty) ==
    LET r == SignPsbtInputMut(m, p, idx, hash_ty)
    IN [psbt |-> r.psbt, res |-> r.res, back |-> Some(r.psbt)]

\* sign_psbt_mut and sign_psbt: input 0
SignPsbtMut(m, p, hash_ty) == SignPsbtInputMut(m, p, 0, hash_ty)
SignPsbt(m, p, hash_ty) == SignPsbtInput(m, p, 0, hash_ty)

\* bitcoin::consensus::serialize of a bundle
Serialize(p) == [bytes_of |-> p]

\* sign: the serialized signed bundle, or the error
Sign(m, p, hash_ty) ==
    LET r == SignPsbtMut(m, p, hash_ty)
    IN [res |-> r.res,
        bytes |-> IF r.res.kind = "Ok" THEN Some(Serialize(r.psbt)) ELSE None]

(* --------------------------- bundles signed ---------------------------- *)
TxOut == [value |-> "sats"]
Leaves == 1..MaxLeaves
RootKp == ToKeypair([m |-> SelfMaster, path |-> RootPath])
OtherRootKp == ToKeypair([m |-> OtherMaster, path |-> RootPath])
Child(m, path) == ToKeypair([m |-> m, path |-> path])
EmptyMap == [x \in {} |-> None]

\* A signature some other party put into the bundle before this signer ran.
PriorSig ==
    [sig |-> [msg |-> [tx |-> [n_in |-> 0, n_out |-> 0], prevouts |-> <<>>,
                       input_index |-> 0, path |-> None, hash_ty |-> "All"],
              kp |-> OtherRootKp],
     hash_ty |-> "All"]

\* Leaf vectors of a table entry: one leaf, every leaf, every leaf with the
\* first one listed twice.
AllLeavesVec == [i \in 1..MaxLeaves |-> i]
LeafVecs == {<<1>>, AllLeavesVec, AllLeavesVec \o <<1>>}

Entry(key, leaves, m, path) ==
    [key |-> key, leaves |-> leaves, fp |-> Fingerprint(m), path |-> path]

\* Expected-signer tables (tap_key_origins), as sequences in key order.
Tables ==
    {<<>>}
    \cup {<<Entry(XOnly(Child(SelfMaster, <<1>>)), lv, SelfMaster, <<1>>)>> : lv \in LeafVecs}
    \cup {<<Entry(XOnly(Child(SelfMaster, <<1>>)), AllLeavesVec, mp[1], mp[2])>> :
              mp \in {<<SelfMaster, <<2>> >>, <<SelfMaster, BadPath>>,
                      <<OtherMaster, <<1>> >>}}
    \cup {<<Entry(XOnly(Child(OtherMaster, <<1>>)), AllLeavesVec, m, <<1>>)>> : m \in Masters}
    \cup {<<Entry(XOnly(Child(SelfMaster, <<1>>)), <<1>>, SelfMaster, <<1>>),
             Entry(XOnly(Child(SelfMaster, <<2>>)), AllLeavesVec, SelfMaster, p)>> :
              p \in {<<1>>, <<2>>}}
SmallTables ==
    {<<>>, <<Entry(XOnly(Child(SelfMaster, <<1>>)), AllLeavesVec, SelfMaster, <<1>>)>>}

MerkleRoots == {None, Some("r1")}
InternalKeys(mr) ==
    {None, Some(XOnly(RootKp)), Some(XOnly(TapTweak(RootKp, mr))), Some(XOnly(OtherRootKp))}

\* Signature fields already in a record: none, or a key signature and
\* tapleaf signatures left by an earlier signer.
Priors ==
    {[key |-> None, scripts |-> EmptyMap],
     [key |-> Some(PriorSig),
      scripts |-> [x \in {<<XOnly(Child(SelfMaster, <<1>>)), 1>>,
                          <<XOnly(Child(OtherMaster, <<1>>)), 1>>} |-> PriorSig]]}

MkInput(utxo, ik, mr, t, pr) ==
    [witness_utxo |-> utxo, tap_internal_key |-> ik, tap_merkle_root |-> mr,
     tap_key_origins |-> t, tap_key_sig |-> pr.key, tap_script_sigs |-> pr.scripts]

\* Input records with something for this signer to decide.
RichInputs ==
    UNION {{MkInput(Some(TxOut), ik, mr, t, pr) :
               ik \in InternalKeys(mr), t \in SmallTables, pr \in Priors} :
           mr \in MerkleRoots}
    \cup {MkInput(Some(TxOut), Some(XOnly(RootKp)), None, t, pr) :
               t \in Tables, pr \in Priors}

\* Input records of other parties, nothing recorded for this signer: one
\* still without its previous output, one already signed by its owner.
PlainInputs ==
    {MkInput(None, None, None, <<>>, [key |-> None, scripts |-> EmptyMap]),
     MkInput(Some(TxOut), None, None, <<>>,
             [key |-> Some(PriorSig),
              scripts |-> [x \in {<<XOnly(Child(OtherMaster, <<1>>)), 1>>} |-> PriorSig]])}

\* Bundles: up to MaxInputs input records, at most one of them rich, and an
\* unsigned transaction with as many inputs and up to MaxOutputs outputs.
InputSeqs ==
    UNION {{s \in [1..n -> RichInputs \cup PlainInputs] :
               Cardinality({i \in 1..n : s[i] \notin PlainInputs}) <= 1} :
           n \in 0..MaxInputs}

Bundles ==
    {[unsigned_tx |-> [n_in |-> Len(s), n_out |-> o], inputs |-> s] :
        s \in InputSeqs, o \in 0..MaxOutputs}

(* ------------------------------ actions -------------------------------- *)
NoCall ==
    [called |-> FALSE, op |-> "none", idx |-> 0, hash_ty |-> "All", pre |-> None,
     res |-> ResOk]
NoRet == [back |-> None, bytes |-> None]
Idle == <<>>

Init ==
    /\ psbt \in Bundles
    /\ ret = NoRet
    /\ last = NoCall
    /\ procs = Idle

\* What the caller knows of the latest call: the operation, its arguments,
\* the bundle passed in and the result.
Record(op, idx, hash_ty, res) ==
    [called |-> TRUE, op |-> op, idx |-> idx, hash_ty |-> hash_ty, pre |-> Some(psbt),
     res |-> res]

\* The target indices tried: every input position and one past the end.
Indices == 0..Len(psbt.inputs)

CallSignPsbtInputMut ==
    \E idx \in Indices, hash_ty \in HashTypes :
        \E r \in {SignPsbtInputMut(SelfMaster, psbt, idx, hash_ty)} :
           /\ psbt' = r.psbt
           /\ ret' = NoRet
           /\ last' = Record("sign_psbt_input_mut", idx, hash_ty, r.res)
           /\ UNCHANGED procs

CallSignPsbtInput ==
    \E idx \in Indices, hash_ty \in HashTypes :
        \E r \in {SignPsbtInput(SelfMaster, psbt, idx, hash_ty)} :
           /\ psbt' = r.psbt
           /\ ret' = [back |-> r.back, bytes |-> None]
           /\ last' = Record("sign_psbt_input", idx, hash_ty, r.res)
           /\ UNCHANGED procs

CallSignPsbtMut ==
    \E hash_ty \in HashTypes :
        \E r \in {SignPsbtMut(SelfMaster, psbt, hash_ty)} :
           /\ psbt' = r.psbt
           /\ ret' = NoRet
           /\ last' = Record("sign_psbt_mut", 0, hash_ty, r.res)
           /\ UNCHANGED procs

CallSignPsbt ==
    \E hash_ty \in HashTypes :
        \E r \in {SignPsbt(SelfMaster, psbt, hash_ty)} :
           /\ psbt' = r.psbt
           /\ ret' = [back |-> r.back, bytes |-> None]
           /\ last' = Record("sign_psbt", 0, hash_ty, r.res)
           /\ UNCHANGED procs

\* sign takes the bundle by value: the caller's bundle is not signed, the
\* signed one comes back only as bytes.
CallSign ==
    \E hash_ty \in HashTypes :
        \E r \in {Sign(SelfMaster, psbt, hash_ty)} :
           /\ ret' = [back |-> None, bytes |-> r.bytes]
           /\ last' = Record("sign", 0, hash_ty, r.res)
           /\ UNCHANGED <<psbt, procs>>

Next ==
    \/ CallSignPsbtInputMut
    \/ CallSignPsbtInput
    \/ CallSignPsbtMut
    \/ CallSignPsbt
    \/ CallSign

Spec == Init /\ [][Next]_vars

(* ---------- two signers on distinct input records of one bundle -------- *)
\* Each signer runs sign_psbt_input_mut on its own index in three steps:
\* lines 92-110 (extract the transaction, collect the previous outputs,
\* find the record), line 112 (key path) and line 113 (tapleaf branches).
ProcIds == {1, 2}

ConcInputs ==
    {MkInput(Some(TxOut), Some(XOnly(RootKp)), mr, t, pr) :
        mr \in MerkleRoots, t \in SmallTables,
        pr \in {[key |-> None, scripts |-> EmptyMap]}}
    \cup {MkInput(Some(TxOut), Some(XOnly(RootKp)), None, t, pr) :
              t \in SmallTables \ {<<>>}, pr \in Priors}
    \cup {MkInput(None, None, None, <<>>, [key |-> None, scripts |-> EmptyMap])}

ConcBundles ==
    {[unsigned_tx |-> [n_in |-> Len(s), n_out |-> o], inputs |-> s] :
        s \in UNION {[1..n -> ConcInputs] : n \in 2..MaxInputs}, o \in 0..MaxOutputs}

Proc(idx, hash_ty) ==
    [pc |-> "start", idx |-> idx, hash_ty |-> hash_ty,
     tx |-> [n_in |-> 0, n_out |-> 0], utxos |-> <<>>, res |-> ResOk]

InitConc ==
    /\ psbt \in ConcBundles
    /\ ret = NoRet
    /\ last = [NoCall EXCEPT !.op = "concurrent", !.pre = Some(psbt)]
    /\ \E i \in 0..(Len(psbt.inputs) - 1), j \in 0..(Len(psbt.inputs) - 1) :
          /\ i < j
          /\ \E hi \in HashTypes, hj \in HashTypes :
                procs = <<Proc(i, hi), Proc(j, hj)>>

\* lines 92-110
Collect(p) ==
    /\ procs[p].pc = "start"
    /\ LET c == CollectUtxos(psbt.inputs, 0)
           pos == GetMut(psbt.inputs, procs[p].idx)
       IN procs' = [procs EXCEPT ![p] =
             IF ~c.ok THEN [@ EXCEPT !.pc = "done", !.res = NoUTXOAtIndex(c.err)]
             ELSE IF pos = 0 THEN [@ EXCEPT !.pc = "done", !.res = NoInputAtIndex(@.idx)]
             ELSE [@ EXCEPT !.pc = "keypath", !.tx = ExtractTx(psbt), !.utxos = c.utxos]]
    /\ UNCHANGED <<psbt, ret, last>>

\* line 112
KeyPath(p) ==
    /\ procs[p].pc = "keypath"
    /\ LET pos == GetMut(psbt.inputs, procs[p].idx)
           k == SignTaprootTopKey(SelfMaster, psbt.inputs[pos], procs[p].tx,
                                  procs[p].utxos, procs[p].hash_ty)
       IN /\ psbt' = [psbt EXCEPT !.inputs[pos] = k.input]
          /\ procs' = [procs EXCEPT ![p] =
                IF k.panic THEN [@ EXCEPT !.pc = "done", !.res = ResPanic]
                ELSE [@ EXCEPT !.pc = "tapleaf"]]
    /\ UNCHANGED <<ret, last>>

\* line 113
Tapleaf(p) ==
    /\ procs[p].pc = "tapleaf"
    /\ LET pos == GetMut(psbt.inputs, procs[p].idx)
           t == SignAllTapleafBranches(SelfMaster, psbt.inputs[pos], procs[p].tx,
                                       procs[p].utxos, procs[p].hash_ty)
       IN /\ psbt' = [psbt EXCEPT !.inputs[pos] = t.input]
          /\ procs' = [procs EXCEPT ![p] =
                [@ EXCEPT !.pc = "done", !.res = IF t.panic THEN ResPanic ELSE ResOk]]
    /\ UNCHANGED <<ret, last>>

NextConc ==
    \E p \in ProcIds :
        \/ Collect(p)
        \/ KeyPath(p)
        \/ Tapleaf(p)

SpecConc == InitConc /\ [][NextConc]_vars

(* ---------------------- vocabulary of the properties ------------------- *)
Called == last.called
Succeeded == last.called /\ last.res.kind = "Ok"
Pre == Unwrap(last.pre)
\* The bundle after the call: sign hands it back only as bytes.
Post == IF last.op = "sign" /\ IsSome(ret.bytes) THEN Unwrap(ret.bytes).bytes_of ELSE psbt
Pos == last.idx + 1
PreIn == Pre.inputs[Pos]
PostIn == Post.inputs[Pos]
Range(seq) == {seq[i] : i \in 1..Len(seq)}
Missing(p) == {i \in 0..(Len(p.inputs) - 1) : ~IsSome(p.inputs[i + 1].witness_utxo)}
Min(S) == CHOOSE x \in S : \A y \in S : x <= y
ErrorKinds == {"NoUTXOAtIndex", "NoInputAtIndex"}
SelfFp == Fingerprint(SelfMaster)
SelfPk == XOnly(RootKp)

\* The entry's key is the key the signer derives along the entry's path.
Rederives(e) ==
    LET d == DerivePriv(SelfMaster, e.path)
    IN IsSome(d) /\ XOnly(ToKeypair(Unwrap(d))) = e.key
Matched(e) == e.fp = SelfFp /\ Rederives(e)

\* The record's key-path signature is one by the signer's root key with the
\* call's sighash type.
KeySigByCall(inp) ==
    /\ IsSome(inp.tap_key_sig)
    /\ Unwrap(inp.tap_key_sig).sig.kp.sk = RootKp.sk
    /\ Unwrap(inp.tap_key_sig).hash_ty = last.hash_ty

\* The tapleaf entries the call wrote or changed.
WrittenLeafKeys ==
    {k \in DOMAIN PostIn.tap_script_sigs :
        \/ k \notin DOMAIN PreIn.tap_script_sigs
        \/ PostIn.tap_script_sigs[k] # PreIn.tap_script_sigs[k]}
\* The tapleaf entries holding a signature of this signer.
OwnLeafKeys ==
    {k \in DOMAIN PostIn.tap_script_sigs :
        PostIn.tap_script_sigs[k].sig.kp.sk.m = SelfMaster}
\* The (key, leaf) pairs the table makes this signer sign.
SignedPairs(table) ==
    {<<e.key, l>> : e \in {x \in Range(table) : Matched(x)}, l \in Leaves}
      \cap UNION {{<<e.key, l>> : l \in Range(e.leaves)} : e \in Range(table)}

(* ------------------------------- C1 ------------------------------------ *)
\* C1: a call on a bundle with an input lacking its previous output, or with
\* a target index past the last input, returns NoUTXOAtIndex resp.
\* NoInputAtIndex, leaves the bundle as it was, and sign_psbt_input hands
\* that unchanged bundle back.
NoMutationOnFailure ==
    Called =>
      ((Missing(Pre) # {} \/ last.idx >= Len(Pre.inputs)) =>
         /\ last.res.kind = (IF Missing(Pre) # {} THEN "NoUTXOAtIndex" ELSE "NoInputAtIndex")
         /\ psbt = Pre
         /\ last.op \in {"sign_psbt_input", "sign_psbt"} => ret.back = Some(Pre)
         /\ ret.bytes = None)

NoMutationOnFailureWitness ==
    /\ Called
    /\ last.op = "sign_psbt_input"
    /\ last.res.kind = "NoUTXOAtIndex"
    /\ last.idx < Len(Pre.inputs)
    /\ PreIn.tap_internal_key = Some(SelfPk)
    /\ PreIn.tap_key_origins # <<>>
    /\ ret.back = Some(Pre)

(* ------------------------------- C2 ------------------------------------ *)
\* C2 as claimed: after a successful call the key-path signature is written
\* if and only if the root key tweaked by the input's merkle root has the
\* recorded internal key as its public key.
TweakCorrectnessAsClaimed ==
    Succeeded =>
      (KeySigByCall(PostIn) <=>
         PreIn.tap_internal_key = Some(XOnly(TapTweak(RootKp, PreIn.tap_merkle_root))))

\* C2 amended: after a successful call the key-path signature is written if
\* and only if the untweaked root public key is the recorded internal key,
\* whatever the merkle root; otherwise the field is left as it was.
KeyPathIffUntweakedInternalKey ==
    Succeeded =>
      /\ KeySigByCall(PostIn) <=> PreIn.tap_internal_key = Some(SelfPk)
      /\ PreIn.tap_internal_key # Some(SelfPk) => PostIn.tap_key_sig = PreIn.tap_key_sig

KeyPathWitness ==
    /\ Succeeded
    /\ PreIn.tap_internal_key = Some(SelfPk)
    /\ PreIn.tap_merkle_root # None
    /\ PreIn.tap_key_sig = Some(PriorSig)
    /\ KeySigByCall(PostIn)

(* ------------------------------- C3 ------------------------------------ *)
WithoutEntry(p, pos, e) ==
    [p EXCEPT !.inputs[pos].tap_key_origins = SelectSeq(@, LAMBDA x : x # e)]

\* C3: every tapleaf signature written, and every one of this signer, sits
\* under a (key, leaf) whose table entry has the signer's fingerprint, the
\* key the signer re-derives along its path, and that leaf; an entry with the
\* signer's fingerprint that does not re-derive gets no signature and raises
\* no error (the call ends as it does without the entry); no entry yields
\* two key pairs.
OriginIntegrity ==
    (Called /\ last.res.kind \notin ErrorKinds) =>
      /\ \A k \in WrittenLeafKeys \cup OwnLeafKeys :
            \E e \in Range(PreIn.tap_key_origins) :
               e.key = k[1] /\ Matched(e) /\ k[2] \in Range(e.leaves)
      /\ \A e \in Range(PreIn.tap_key_origins) :
            (e.fp = SelfFp /\ ~Rederives(e)) =>
               /\ \A k \in WrittenLeafKeys \cup OwnLeafKeys : k[1] # e.key
               /\ LET r == SignPsbtInputMut(SelfMaster, WithoutEntry(Pre, Pos, e),
                                            last.idx, last.hash_ty)
                  IN /\ r.res = last.res
                     /\ r.psbt.inputs[Pos].tap_script_sigs = PostIn.tap_script_sigs
                     /\ r.psbt.inputs[Pos].tap_key_sig = PostIn.tap_key_sig
      /\ LET s == ComputeMatchingKeys(SelfMaster, PreIn.tap_key_origins)
         IN \A e \in Range(PreIn.tap_key_origins) :
               Cardinality({i \in 1..Len(s) : XOnly(s[i].kp) = e.key}) <= 1

OriginIntegrityWitness ==
    /\ Succeeded
    /\ \E e \in Range(PreIn.tap_key_origins) : e.fp = SelfFp /\ ~Rederives(e)
    /\ \E e \in Range(PreIn.tap_key_origins) : Matched(e)
    /\ WrittenLeafKeys # {}

(* ------------------------------- C4 ------------------------------------ *)
\* C4: every call either returns one of the two index errors with nothing
\* mutated or returns success, and it returns success whenever every input
\* has its previous output and the index is in range.
AtomicCompletion ==
    Called =>
      /\ \/ last.res.kind \in ErrorKinds /\ psbt = Pre
         \/ last.res.kind = "Ok"
      /\ (Missing(Pre) = {} /\ last.idx < Len(Pre.inputs)) => last.res.kind = "Ok"

(* ------------------------------- C5 ------------------------------------ *)
\* C5: after a successful call, the same call again succeeds and leaves the
\* bundle as it is; and when the record held tapleaf signatures under a
\* matched key for none but that key's listed leaves, it holds exactly one
\* per distinct listed leaf afterwards.
IdempotentResigning ==
    Succeeded =>
      /\ LET again == SignPsbtInputMut(SelfMaster, Post, last.idx, last.hash_ty)
         IN again.res = ResOk /\ again.psbt = Post
      /\ \A e \in Range(PreIn.tap_key_origins) :
            (/\ Matched(e)
             /\ \A k \in DOMAIN PreIn.tap_script_sigs :
                   k[1] = e.key => k[2] \in Range(e.leaves)) =>
              Cardinality({k \in DOMAIN PostIn.tap_script_sigs : k[1] = e.key})
                = Cardinality(Range(e.leaves))

IdempotentResigningWitness ==
    /\ Succeeded
    /\ Pre = Post
    /\ \E e \in Range(PreIn.tap_key_origins) :
          /\ Matched(e)
          /\ Len(e.leaves) > Cardinality(Range(e.leaves))
          /\ Cardinality({k \in OwnLeafKeys : k[1] = e.key}) = Cardinality(Range(e.leaves))
    /\ KeySigByCall(PostIn)

(* ------------------------------- C6 ------------------------------------ *)
\* C6: a key-path signature the call wrote is by the root key pair tweaked by
\* the input's merkle root over a digest without leaf context; a tapleaf
\* signature it wrote is by the untweaked child key derived for the entry,
\* over the digest with context (leaf, DEFAULT_CODESEP), stored under that
\* key's x-only public key and the leaf; each is tagged with the call's
\* sighash type.
KeyUsagePerPath ==
    Succeeded =>
      /\ (PostIn.tap_key_sig # PreIn.tap_key_sig \/ KeySigByCall(PostIn)) =>
            LET s == Unwrap(PostIn.tap_key_sig)
            IN /\ s.sig.kp = [sk |-> [m |-> SelfMaster, path |-> RootPath],
                               tweak |-> Some(PreIn.tap_merkle_root)]
               /\ s.sig.msg.path = None
               /\ s.sig.msg.hash_ty = last.hash_ty
               /\ s.hash_ty = last.hash_ty
      /\ \A k \in WrittenLeafKeys \cup OwnLeafKeys :
            LET s == PostIn.tap_script_sigs[k]
            IN /\ s.sig.kp.tweak = None
               /\ [xonly |-> s.sig.kp.sk, tweak |-> None] = k[1]
               /\ \E e \in Range(PreIn.tap_key_origins) :
                     e.key = k[1] /\ s.sig.kp.sk = [m |-> SelfMaster, path |-> e.path]
               /\ s.sig.msg.path = Some(<<k[2], <<255, 255, 255, 255>> >>)
               /\ k \in WrittenLeafKeys =>
                     s.sig.msg.hash_ty = last.hash_ty /\ s.hash_ty = last.hash_ty

KeyUsageWitness ==
    /\ Succeeded
    /\ PreIn.tap_merkle_root # None
    /\ PreIn.tap_key_sig = None
    /\ KeySigByCall(PostIn)
    /\ Cardinality(WrittenLeafKeys) >= 2

(* ------------------------------- C7 ------------------------------------ *)
\* C7: every signature a successful call on index idx stores in record idx
\* is over the digest computed for input position idx.
DigestMatchesTargetIndex ==
    Succeeded =>
      /\ KeySigByCall(PostIn) =>
            Unwrap(PostIn.tap_key_sig).sig.msg.input_index = last.idx
      /\ \A k \in WrittenLeafKeys :
            PostIn.tap_script_sigs[k].sig.msg.input_index = last.idx

(* ------------------------------- C8 ------------------------------------ *)
\* C8: with some input lacking its previous output the call returns
\* NoUTXOAtIndex of the smallest such index, whatever the target index; it
\* returns NoInputAtIndex(idx) exactly when no input lacks one and idx is
\* past the last input.
ErrorSelection ==
    Called =>
      /\ Missing(Pre) # {} => last.res = NoUTXOAtIndex(Min(Missing(Pre)))
      /\ last.res.kind = "NoInputAtIndex" <=>
            (Missing(Pre) = {} /\ last.idx >= Len(Pre.inputs))
      /\ last.res.kind = "NoInputAtIndex" => last.res.index = last.idx

ErrorSelectionWitness ==
    /\ Called
    /\ Cardinality(Missing(Pre)) >= 2
    /\ last.idx >= Len(Pre.inputs)
    /\ last.res = NoUTXOAtIndex(0)

(* ------------------------------- C9 ------------------------------------ *)
\* C9: a successful call changes nothing but the key-path signature and the
\* tapleaf signature map of the target record; tapleaf entries for pairs it
\* does not sign stay, and the key-path signature stays when the root public
\* key is not the recorded internal key.
FrameOfSuccess ==
    Succeeded =>
      /\ Post.unsigned_tx = Pre.unsigned_tx
      /\ Len(Post.inputs) = Len(Pre.inputs)
      /\ \A i \in 1..Len(Pre.inputs) : i # Pos => Post.inputs[i] = Pre.inputs[i]
      /\ PostIn.witness_utxo = PreIn.witness_utxo
      /\ PostIn.tap_internal_key = PreIn.tap_internal_key
      /\ PostIn.tap_merkle_root = PreIn.tap_merkle_root
      /\ PostIn.tap_key_origins = PreIn.tap_key_origins
      /\ \A k \in DOMAIN PreIn.tap_script_sigs :
            /\ k \in DOMAIN PostIn.tap_script_sigs
            /\ k \notin SignedPairs(PreIn.tap_key_origins) =>
                  PostIn.tap_script_sigs[k] = PreIn.tap_script_sigs[k]
      /\ PreIn.tap_internal_key # Some(SelfPk) => PostIn.tap_key_sig = PreIn.tap_key_sig

FrameWitness ==
    /\ Succeeded
    /\ Len(Pre.inputs) >= 2
    /\ \E i \in 1..Len(Pre.inputs) : i # Pos /\ Pre.inputs[i].tap_key_sig # None
    /\ WrittenLeafKeys # {}
    /\ \E k \in DOMAIN PreIn.tap_script_sigs : k \notin SignedPairs(PreIn.tap_key_origins)
    /\ PreIn.tap_internal_key # Some(SelfPk)
    /\ PreIn.tap_key_sig # None

(* ------------------------------- C10 ----------------------------------- *)
AllDone == procs # Idle /\ \A p \in ProcIds : procs[p].pc = "done"
\* Signer a's whole call, then signer b's, from bundle p.
InOrder(p, a, b) ==
    SignPsbtInputMut(SelfMaster,
        SignPsbtInputMut(SelfMaster, p, procs[a].idx, procs[a].hash_ty).psbt,
        procs[b].idx, procs[b].hash_ty).psbt

\* C10: when two signers of distinct in-range indices have both finished,
\* however their steps interleaved, the bundle is the one either sequential
\* order gives, and each target record is the one its call alone gives.
IndexIndependence ==
    AllDone =>
      /\ psbt = InOrder(Pre, 1, 2)
      /\ psbt = InOrder(Pre, 2, 1)
      /\ \A p \in ProcIds :
            LET alone == SignPsbtInputMut(SelfMaster, Pre, procs[p].idx, procs[p].hash_ty)
            IN /\ psbt.inputs[procs[p].idx + 1] = alone.psbt.inputs[procs[p].idx + 1]
               /\ procs[p].res = alone.res

IndexIndependenceWitness ==
    /\ AllDone
    /\ \A p \in ProcIds : procs[p].res = ResOk
    /\ procs[1].hash_ty # procs[2].hash_ty
    /\ \A p \in ProcIds :
          /\ psbt.inputs[procs[p].idx + 1].tap_key_sig # None
          /\ Pre.inputs[procs[p].idx + 1].tap_key_sig = None
          /\ DOMAIN psbt.inputs[procs[p].idx + 1].tap_script_sigs # {}

====
